---- MODULE Spec2Model ----
(***************************************************************************)
(* A model of PPOLearner (src/src/ppo_alogrithm.py): trajectory and batch  *)
(* generation, discounted returns, performance tracking with best-policy   *)
(* reversion, the gradient epochs and the hyperparameter schedule.         *)
(*                                                                         *)
(* Numbers are exact rationals <<n, d>> with d >= 0: d > 0 is a finite     *)
(* value in lowest terms, <<1, 0>> is +inf, <<-1, 0>> is -inf and <<0, 0>> *)
(* is NaN, the values a float64 division can produce.                      *)
(* Policy networks are objects on a heap: `objects[id]` is the parameter   *)
(* value of object id (the number of optimizer steps that produced it), so *)
(* that aliasing and copying are distinguishable.                          *)
(***************************************************************************)
EXTENDS Integers, Sequences, FiniteSets, TLC

VARIABLES
    args,               \* the constructor arguments (never reassigned)
    hp,                 \* the hyperparameter attributes of the learner
    environment,        \* self.environment: [init, state]
    policy,             \* self.policy: an object id
    best_policy,        \* self.best_policy: an object id
    optimizer_params,   \* the object whose parameters self.optimizer holds
    objects,            \* heap: object id -> parameter value
    mean_rewards,       \* self.mean_rewards
    best_mean_reward,   \* self.best_mean_reward
    trajectories,       \* generate_batch: the trajectories generated so far
    batch,              \* the batch returned by generate_batch
    iteration,          \* train: the loop index i
    epoch,              \* update_policy_network: the loop index
    pc                  \* the position in train / generate_batch

vars == <<args, hp, environment, policy, best_policy, optimizer_params, objects,
          mean_rewards, best_mean_reward, trajectories, batch, iteration, epoch, pc>>

---------------------------------------------------------------------------
(* Bounds *)

MaxSteps == 2          \* largest n_steps_per_trajectory explored by SpecBatch
MaxTrajectories == 2   \* largest n_trajectories_per_batch explored by SpecBatch
NIterations == 3       \* n_iterations of the training run
NEpochs == 2           \* n_epochs of the training run

---------------------------------------------------------------------------
(* Float arithmetic *)

Abs(x) == IF x < 0 THEN -x ELSE x

RECURSIVE GCD(_, _)
GCD(a, b) == IF b = 0 THEN a ELSE GCD(b, a % b)

\* the value n/d, d # 0, in lowest terms with a positive denominator
Rat(n, d) ==
    LET g == GCD(Abs(n), Abs(d))
        s == IF d < 0 THEN -1 ELSE 1
    IN  <<(s * n) \div g, (s * d) \div g>>

Zero == <<0, 1>>
NegInf == <<-1, 0>>
PosInf == <<1, 0>>
NaN == <<0, 0>>

IsFinite(x) == x[2] > 0

\* x + y, x - y, x * y on finite values
RAdd(x, y) == Rat(x[1] * y[2] + y[1] * x[2], x[2] * y[2])
RSub(x, y) == Rat(x[1] * y[2] - y[1] * x[2], x[2] * y[2])
RMul(x, y) == Rat(x[1] * y[1], x[2] * y[2])

\* x - y as float64 computes it
FSub(x, y) ==
    IF x = NaN \/ y = NaN THEN NaN
    ELSE IF IsFinite(x) /\ IsFinite(y) THEN RSub(x, y)
    ELSE IF IsFinite(y) THEN x
    ELSE IF IsFinite(x) THEN <<-y[1], 0>>
    ELSE IF x = y THEN NaN ELSE x

\* x / y as float64 computes it: a zero divisor gives inf or nan, no exception
FDiv(x, y) ==
    IF x = NaN \/ y = NaN THEN NaN
    ELSE IF ~IsFinite(x)
    THEN IF ~IsFinite(y) THEN NaN ELSE IF y[1] >= 0 THEN x ELSE <<-x[1], 0>>
    ELSE IF ~IsFinite(y) THEN Zero
    ELSE IF y[1] = 0
    THEN IF x[1] > 0 THEN PosInf ELSE IF x[1] < 0 THEN NegInf ELSE NaN
    ELSE Rat(x[1] * y[2], x[2] * y[1])

\* x > y as float64 compares: any comparison with NaN is false
FGreater(x, y) ==
    /\ x # NaN
    /\ y # NaN
    /\ x[1] * y[2] > y[1] * x[2]

\* max(x, y) of two finite values (Python's max keeps the first on a tie)
FMax(x, y) == IF FGreater(y, x) THEN y ELSE x

RECURSIVE SumSeq(_)
SumSeq(s) == IF s = <<>> THEN Zero ELSE RAdd(Head(s), SumSeq(Tail(s)))

\* np.mean of a non-empty list
Mean(s) == FDiv(SumSeq(s), <<Len(s), 1>>)

---------------------------------------------------------------------------
(* The environment: init, reset() and step(action) *)

\* what one step(action) can return: <<new_state, reward>>
BatchOutcomes == {<<0, <<1, 1>>>>, <<1, <<2, 1>>>>}
TrainOutcomes == {<<0, <<-10, 1>>>>, <<1, <<-8, 1>>>>, <<0, <<8, 1>>>>, <<1, <<10, 1>>>>}

\* what random_init_box.sample() can return
BoxStates == {1, 2}

EnvSetInit(env, state) == [env EXCEPT !.init = state]
EnvReset(env) == [env EXCEPT !.state = env.init]
EnvStep(env, outcome) == [env EXCEPT !.state = outcome[1]]

---------------------------------------------------------------------------
(* calculate_discounted_rewards *)

\* the loop over reversed(range(n_steps_per_trajectory)) with a wrong range:
\* every recorded reward, the extra step's included
calculate_discounted_rewards_all_rewards(h, rewards) ==
    LET RECURSIVE Loop(_, _, _)
        Loop(t, discounted_reward, discounted_rewards) ==
            IF t < 1 THEN discounted_rewards
            ELSE LET d == RAdd(rewards[t], RMul(h.discount, discounted_reward))
                 IN  Loop(t - 1, d, <<d>> \o discounted_rewards)
    IN  Loop(Len(rewards), Zero, <<>>)

\* t runs from n_steps_per_trajectory down to 1 (Python's H-1 down to 0);
\* insert(0, .) puts each new value in front
calculate_discounted_rewards(h, rewards) ==
    LET RECURSIVE Loop(_, _, _)
        Loop(t, discounted_reward, discounted_rewards) ==
            IF t < 1 THEN discounted_rewards
            ELSE LET d == RAdd(rewards[t], RMul(h.discount, discounted_reward))
                 IN  Loop(t - 1, d, <<d>> \o discounted_rewards)
    IN  Loop(h.n_steps_per_trajectory, Zero, <<>>)

---------------------------------------------------------------------------
(* generate_trajectory *)

\* "Set initial state": the first state of the rollout
InitialState(h, env, sample) ==
    IF h.randomize_init_state THEN sample ELSE env.init

\* "Set initial state": the environment as the rollout starts
InitialEnvironment(h, env, sample) ==
    IF h.randomize_init_state THEN EnvReset(EnvSetInit(env, sample)) ELSE env

\* the states appended by the n_steps_per_trajectory + 1 steps: the state each
\* action was sampled in
RolloutStates(h, state, outcomes) ==
    [k \in 1..(h.n_steps_per_trajectory + 1) |->
        IF k = 1 THEN state ELSE outcomes[k - 1][1]]

\* the rewards appended by the n_steps_per_trajectory + 1 steps
RolloutRewards(h, outcomes) ==
    [k \in 1..(h.n_steps_per_trajectory + 1) |-> outcomes[k][2]]

\* the environment after the last step of the rollout
RolloutEnvironment(h, env, outcomes) ==
    EnvStep(env, outcomes[h.n_steps_per_trajectory + 1])

\* "Reset environment initial state" without putting init back
RestoreInitResetOnly(env, init_state) == EnvReset(env)

\* "Reset environment initial state"
RestoreInit(env, init_state) == EnvReset(EnvSetInit(env, init_state))

\* states[:-1] replaced by states
ReturnedStatesAll(states) == states

\* states[:-1]
ReturnedStates(states) == SubSeq(states, 1, Len(states) - 1)

\* one call: the returned triple and the environment it leaves behind
generate_trajectory(h, env, sample, outcomes) ==
    LET init_state == env.init
        state == InitialState(h, env, sample)
        env1 == InitialEnvironment(h, env, sample)
        states == RolloutStates(h, state, outcomes)
        rewards == RolloutRewards(h, outcomes)
        env2 == RolloutEnvironment(h, env1, outcomes)
        env3 == RestoreInit(env2, init_state)
        discounted_rewards == calculate_discounted_rewards(h, rewards)
    IN  [ret |-> <<ReturnedStates(states), rewards, discounted_rewards>>,
         env |-> env3]

---------------------------------------------------------------------------
(* generate_batch *)

RECURSIVE concatenate_lists(_)
concatenate_lists(lists) ==
    IF lists = <<>> THEN <<>> ELSE Head(lists) \o concatenate_lists(Tail(lists))

\* map(concatenate_lists, zip(*trajectories))
UnzipAndConcatenate(trajs) ==
    [states |-> concatenate_lists([k \in 1..Len(trajs) |-> trajs[k][1]]),
     rewards |-> concatenate_lists([k \in 1..Len(trajs) |-> trajs[k][2]]),
     discounted_rewards |-> concatenate_lists([k \in 1..Len(trajs) |-> trajs[k][3]])]

NoBatch == [states |-> <<>>, rewards |-> <<>>, discounted_rewards |-> <<>>]

\* one element of the list comprehension: a call of generate_trajectory
GenerateTrajectory(Outcomes) ==
    /\ pc = "batch"
    /\ Len(trajectories) < hp.n_trajectories_per_batch
    /\ \E sample \in BoxStates :
       \E outcomes \in [1..(hp.n_steps_per_trajectory + 1) -> Outcomes] :
          LET r == generate_trajectory(hp, environment, sample, outcomes)
          IN  /\ trajectories' = Append(trajectories, r.ret)
              /\ environment' = r.env
    /\ UNCHANGED <<args, hp, policy, best_policy, optimizer_params, objects,
                   mean_rewards, best_mean_reward, batch, iteration, epoch, pc>>

\* the return of generate_batch
ReturnBatch(next) ==
    /\ pc = "batch"
    /\ Len(trajectories) = hp.n_trajectories_per_batch
    /\ batch' = UnzipAndConcatenate(trajectories)
    /\ trajectories' = <<>>
    /\ pc' = next
    /\ UNCHANGED <<args, hp, environment, policy, best_policy, optimizer_params,
                   objects, mean_rewards, best_mean_reward, iteration, epoch>>

---------------------------------------------------------------------------
(* _track_performance *)

\* deepcopy(obj): a new object, with the next free id, holding the same value
deepcopy(objs, id) == Append(objs, objs[id])

\* mean_reward >= self.best_mean_reward instead of >
IsNewBestOrEqual(mean_reward, best) ==
    FGreater(mean_reward, best) \/ mean_reward = best

\* mean_reward < self.best_mean_reward instead of >
IsNewBestLess(mean_reward, best) == FGreater(best, mean_reward)

\* mean_reward > self.best_mean_reward
IsNewBest(mean_reward, best) == FGreater(mean_reward, best)

\* the fractional drop taken relative to abs(best_mean_reward)
FractionalDropAbs(best, mean_reward) ==
    FDiv(FSub(best, mean_reward), <<Abs(best[1]), best[2]>>)

\* (self.best_mean_reward - mean_reward) / self.best_mean_reward
FractionalDrop(best, mean_reward) == FDiv(FSub(best, mean_reward), best)

\* the elif condition
ShouldRevert(best, mean_reward, threshold) ==
    FGreater(FractionalDrop(best, mean_reward), threshold)

TrackPerformance ==
    /\ pc = "track"
    /\ LET mean_reward == Mean(batch.rewards) IN
       /\ mean_rewards' = Append(mean_rewards, mean_reward)
       /\ IF IsNewBest(mean_reward, best_mean_reward)
          THEN /\ best_mean_reward' = mean_reward
               /\ objects' = deepcopy(objects, policy)
               /\ best_policy' = Len(objects')
               /\ policy' = policy
          ELSE IF ShouldRevert(best_mean_reward, mean_reward, hp.reversion_threshold)
          THEN /\ policy' = best_policy
               /\ UNCHANGED <<best_mean_reward, best_policy, objects>>
          ELSE UNCHANGED <<best_mean_reward, best_policy, objects, policy>>
    /\ epoch' = 0
    /\ pc' = "update"
    /\ UNCHANGED <<args, hp, environment, optimizer_params, trajectories, batch,
                   iteration>>

---------------------------------------------------------------------------
(* update_policy_network *)

\* self.optimizer.step(): the optimizer updates the parameters it was built on
OptimizerStep(objs, target) == [objs EXCEPT ![target] = @ + 1]

\* one pass of the loop over range(n_epochs)
GradientStep ==
    /\ pc = "update"
    /\ epoch < hp.n_epochs
    /\ objects' = OptimizerStep(objects, optimizer_params)
    /\ epoch' = epoch + 1
    /\ pc' = IF epoch' = hp.n_epochs THEN "hyper" ELSE "update"
    /\ UNCHANGED <<args, hp, environment, policy, best_policy, optimizer_params,
                   mean_rewards, best_mean_reward, trajectories, batch, iteration>>

---------------------------------------------------------------------------
(* update_hyperparameters *)

\* the entropy coefficient left as it is
DecayedEntropyNone(h) == h.entropy_coefficient

\* self.entropy_decay * self.entropy_coefficient
DecayedEntropy(h) == RMul(h.entropy_decay, h.entropy_coefficient)

\* max(decay * decay, min): the current threshold is not a factor
DecayedThreshold(h) ==
    FMax(RMul(h.reversion_threshold_decay, h.reversion_threshold_decay),
         h.min_reversion_threshold)

update_hyperparameters(h) ==
    [h EXCEPT !.entropy_coefficient = DecayedEntropy(h),
              !.reversion_threshold = DecayedThreshold(h)]

\* the end of one pass of train's loop
UpdateHyperparameters ==
    /\ pc = "hyper"
    /\ hp' = update_hyperparameters(hp)
    /\ iteration' = iteration + 1
    /\ pc' = IF iteration' < hp.n_iterations THEN "batch" ELSE "done"
    /\ batch' = NoBatch
    /\ UNCHANGED <<args, environment, policy, best_policy, optimizer_params,
                   objects, mean_rewards, best_mean_reward, trajectories, epoch>>

---------------------------------------------------------------------------
(* PPOLearner.__init__ *)

\* "Set hyperparameter attributes"
Hyperparameters(a) ==
    [n_steps_per_trajectory |-> a.n_steps_per_trajectory,
     n_trajectories_per_batch |-> a.n_trajectories_per_batch,
     n_epochs |-> a.n_epochs,
     n_iterations |-> a.n_iterations,
     discount |-> a.discount,
     clipping_param |-> a.clipping_param,
     critic_coefficient |-> a.critic_coefficient,
     entropy_coefficient |-> a.entropy_coefficient,
     entropy_decay |-> a.entropy_decay,
     reversion_threshold |-> a.reversion_threshold,
     reversion_threshold_decay |-> a.reversion_threshold_decay,
     min_reversion_threshold |-> a.min_reversion_threshold,
     randomize_init_state |-> (a.random_init_box # "None")]

\* the state after construction with arguments a
Constructed(a) ==
    /\ args = a
    /\ hp = Hyperparameters(a)
    /\ environment = [init |-> 0, state |-> 0]
    /\ policy = 1
    /\ optimizer_params = 1
    /\ objects = deepcopy(<<0>>, 1)
    /\ best_policy = Len(objects)
    /\ mean_rewards = <<>>
    /\ best_mean_reward = NegInf
    /\ trajectories = <<>>
    /\ batch = NoBatch
    /\ iteration = 0
    /\ epoch = 0
    /\ pc = "batch"

\* the defaults of the constructor's signature
DefaultArgs ==
    [random_init_box |-> "None",
     n_steps_per_trajectory |-> 1,
     n_trajectories_per_batch |-> 1,
     n_epochs |-> NEpochs,
     n_iterations |-> NIterations,
     discount |-> <<99, 100>>,
     clipping_param |-> <<1, 10>>,
     critic_coefficient |-> <<1, 1>>,
     entropy_coefficient |-> <<1, 10>>,
     entropy_decay |-> <<9, 10>>,
     reversion_threshold |-> <<1, 5>>,
     reversion_threshold_decay |-> <<99, 100>>,
     min_reversion_threshold |-> <<1, 10>>]

---------------------------------------------------------------------------
(* Spec: a training run, train() after construction *)

\* the schedules explored: <<entropy_decay, reversion_threshold_decay,
\* min_reversion_threshold>>
TrainSchedules ==
    {<<(<<9, 10>>), (<<99, 100>>), (<<1, 10>>)>>,
     <<(<<1, 2>>), (<<1, 4>>), (<<1, 5>>)>>}

TrainArgs ==
    {[DefaultArgs EXCEPT !.entropy_decay = s[1],
                         !.reversion_threshold_decay = s[2],
                         !.min_reversion_threshold = s[3]] : s \in TrainSchedules}

Init == \E a \in TrainArgs : Constructed(a)

Next ==
    \/ GenerateTrajectory(TrainOutcomes)
    \/ ReturnBatch("track")
    \/ TrackPerformance
    \/ GradientStep
    \/ UpdateHyperparameters

Spec == Init /\ [][Next]_vars

---------------------------------------------------------------------------
(* SpecBatch: generate_batch called again and again on a constructed learner *)

BatchArgs ==
    {[DefaultArgs EXCEPT !.n_steps_per_trajectory = h,
                         !.n_trajectories_per_batch = b,
                         !.discount = d,
                         !.random_init_box = box] :
        h \in 1..MaxSteps, b \in 1..MaxTrajectories,
        d \in {<<99, 100>>, <<1, 2>>}, box \in {"None", "Box"}}

InitBatch == \E a \in BatchArgs : Constructed(a)

\* the caller takes the batch and calls generate_batch again
CallGenerateBatch ==
    /\ pc = "returned"
    /\ pc' = "batch"
    /\ batch' = NoBatch
    /\ UNCHANGED <<args, hp, environment, policy, best_policy, optimizer_params,
                   objects, mean_rewards, best_mean_reward, trajectories,
                   iteration, epoch>>

NextBatch ==
    \/ GenerateTrajectory(BatchOutcomes)
    \/ ReturnBatch("returned")
    \/ CallGenerateBatch

SpecBatch == InitBatch /\ [][NextBatch]_vars

---------------------------------------------------------------------------
(* Vocabulary of the properties *)

RECURSIVE RPow(_, _)
RPow(x, n) == IF n = 0 THEN <<1, 1>> ELSE RMul(x, RPow(x, n - 1))

\* x < y, x <= y on finite values
RLess(x, y) == x[1] * y[2] < y[1] * x[2]
RLeq(x, y) == x[1] * y[2] <= y[1] * x[2]

RECURSIVE MaxOf(_)
MaxOf(s) ==
    IF Len(s) = 1 THEN s[1]
    ELSE LET m == MaxOf(Tail(s)) IN IF RLess(m, s[1]) THEN s[1] ELSE m

\* a step that is one call of _track_performance
TrackCall == pc = "track" /\ pc' = "update"

\* a step that is one call of update_hyperparameters
HyperCall == pc = "hyper" /\ pc' # "hyper"

\* a step that is one call of generate_trajectory
TrajectoryCall == pc = "batch" /\ Len(trajectories') = Len(trajectories) + 1

\* a step that is the return of generate_batch
BatchReturn == pc = "batch" /\ pc' # "batch"

\* the step made best_policy a new object holding the live policy's value
SnapshotTaken ==
    /\ best_policy' > Len(objects)
    /\ best_policy' # policy'
    /\ objects'[best_policy'] = objects[policy]

\* the step left the live policy alone
LivePolicyKept == policy' = policy /\ objects'[policy'] = objects[policy]

\* the step left best and the snapshot alone
SnapshotKept ==
    /\ best_mean_reward' = best_mean_reward
    /\ best_policy' = best_policy
    /\ objects'[best_policy'] = objects[best_policy]

\* m > b for a finite m and a best b that is finite or -inf
Exceeds(m, b) == b = NegInf \/ RLess(b, m)

\* (b - m) / b > t for finite m <= b and t; with b = 0 the quotient is +inf
\* for m < 0 and nan for m = 0
DropExceeds(b, m, t) ==
    IF b[1] > 0 THEN RLess(RMul(t, b), RSub(b, m))
    ELSE IF b[1] < 0 THEN RLess(RSub(b, m), RMul(t, b))
    ELSE m[1] < 0

---------------------------------------------------------------------------
(* C1: the best-policy snapshot never aliases the live policy: best_policy *)
(* and policy are never the same object.                                   *)
C1_BestPolicyNeverAliases == best_policy # policy

(* C2: a call of _track_performance with mean m, best b, threshold t:      *)
(* m > b records m as best and snapshots the live policy; otherwise        *)
(* (b - m) / b > t replaces the live policy by the snapshot; otherwise     *)
(* nothing changes. With b = 10, t = 0.2: m = 1 reverts, m = 10 or 9 does  *)
(* not.                                                                    *)
C2_TrackPerformanceCases ==
    [][TrackCall =>
        LET m == Mean(batch.rewards)
            b == best_mean_reward
            t == hp.reversion_threshold
        IN  /\ IF Exceeds(m, b)
               THEN best_mean_reward' = m /\ SnapshotTaken /\ LivePolicyKept
               ELSE IF DropExceeds(b, m, t)
               THEN policy' = best_policy /\ SnapshotKept
               ELSE LivePolicyKept /\ SnapshotKept
            /\ (b = <<10, 1>> /\ t = <<1, 5>> /\ m = <<1, 1>>)
                  => policy' = best_policy
            /\ (b = <<10, 1>> /\ t = <<1, 5>> /\ m \in {<<10, 1>>, <<9, 1>>})
                  => policy' = policy
    ]_vars

\* the means [10, 10, 1] under threshold 0.2 have reverted at the third
C2_Witness ==
    /\ pc = "update"
    /\ mean_rewards = << <<10, 1>>, <<10, 1>>, <<1, 1>> >>
    /\ hp.reversion_threshold = <<1, 5>>
    /\ policy = best_policy

(* C3: a call of update_hyperparameters sets the reversion threshold to    *)
(* max(decay^2 * current_threshold, min_threshold).                        *)
C3_ThresholdDecaysFromCurrent ==
    [][HyperCall =>
        hp'.reversion_threshold =
            FMax(RMul(RMul(hp.reversion_threshold_decay, hp.reversion_threshold_decay),
                      hp.reversion_threshold),
                 hp.min_reversion_threshold)
    ]_vars

(* C4: the discounted returns G of a trajectory of horizon H have length   *)
(* H and G[t] = r[t] + discount * G[t+1] with the value after the last one *)
(* taken as 0; the reward of the extra step does not contribute.           *)
C4_DiscountedReturns ==
    \A k \in 1..Len(trajectories) :
        LET r == trajectories[k][2]
            G == trajectories[k][3]
            H == hp.n_steps_per_trajectory
        IN  /\ Len(G) = H
            /\ Len(r) = H + 1
            /\ \A t \in 1..H :
                  G[t] = RAdd(r[t], RMul(hp.discount, IF t = H THEN Zero ELSE G[t + 1]))

\* a trajectory of horizon 2 whose first return carries a discounted second reward
C4_Witness ==
    /\ hp.n_steps_per_trajectory = 2
    /\ \E k \in 1..Len(trajectories) :
          /\ trajectories[k][2] = << <<1, 1>>, <<2, 1>>, <<2, 1>> >>
          /\ hp.discount = <<1, 2>>
          /\ trajectories[k][3] = << <<2, 1>>, <<2, 1>> >>

(* C5: a batch of B trajectories of horizon H has B*H states and B*H       *)
(* discounted returns, ordered by trajectory and then by timestep, the     *)
(* i-th state and i-th return being of the same trajectory and timestep.   *)
C5_BatchOrder ==
    [][BatchReturn =>
        LET B == hp.n_trajectories_per_batch
            H == hp.n_steps_per_trajectory
        IN  /\ Len(batch'.states) = B * H
            /\ Len(batch'.discounted_rewards) = B * H
            /\ \A b \in 1..B : \A t \in 1..H :
                  /\ Len(trajectories[b][1]) = H
                  /\ batch'.states[(b - 1) * H + t] = trajectories[b][1][t]
                  /\ batch'.discounted_rewards[(b - 1) * H + t] = trajectories[b][3][t]
    ]_vars

\* a returned batch of two trajectories of horizon 2 that differ
C5_Witness ==
    /\ pc = "returned"
    /\ hp.n_trajectories_per_batch = 2
    /\ hp.n_steps_per_trajectory = 2
    /\ Len(batch.states) = 4
    /\ batch.states[2] # batch.states[4]
    /\ batch.discounted_rewards[1] # batch.discounted_rewards[3]

(* C6: a call of generate_trajectory, randomized or not, leaves            *)
(* environment.init as it was and the environment reset to it; no step     *)
(* changes the configured initial state.                                   *)
C6_InitRestored ==
    [][/\ environment'.init = environment.init
       /\ TrajectoryCall => environment'.state = environment'.init
    ]_vars

\* a randomized trajectory started away from init, and init is back
C6_Witness ==
    /\ hp.randomize_init_state
    /\ Len(trajectories) >= 1
    /\ trajectories[1][1][1] # environment.init
    /\ environment.state = environment.init

C8_StepsUpdateLivePolicy ==
    /\ pc = "update" => optimizer_params = policy
    /\ pc = "hyper" => epoch = hp.n_epochs

(* C9: after k iterations mean_rewards has k entries in iteration order    *)
(* and best_mean_reward is their maximum; best never decreases; the first  *)
(* iteration records a new best and takes a snapshot, never a reversion.   *)
C9_RewardHistory ==
    /\ [](/\ Len(mean_rewards) =
               iteration + (IF pc \in {"update", "hyper"} THEN 1 ELSE 0)
          /\ best_mean_reward =
               IF mean_rewards = <<>> THEN NegInf ELSE MaxOf(mean_rewards))
    /\ [][TrackCall =>
            /\ mean_rewards' = Append(mean_rewards, Mean(batch.rewards))
            /\ best_mean_reward = NegInf \/ RLeq(best_mean_reward, best_mean_reward')
            /\ iteration = 0 =>
                  /\ best_mean_reward' = Mean(batch.rewards)
                  /\ SnapshotTaken
                  /\ LivePolicyKept
       ]_vars

\* three iterations done, the best being the second mean
C9_Witness ==
    /\ pc = "done"
    /\ Len(mean_rewards) = 3
    /\ RLess(mean_rewards[1], mean_rewards[2])
    /\ RLess(mean_rewards[3], mean_rewards[2])
    /\ best_mean_reward = mean_rewards[2]

(* C10: while best is negative and the threshold non-negative, a mean at   *)
(* or below best never reverts the live policy: the fractional drop        *)
(* (best - m) / best is <= 0.                                              *)
C10_NoRevertBelowNegativeBest ==
    [][(/\ TrackCall
        /\ IsFinite(best_mean_reward)
        /\ RLess(best_mean_reward, Zero)
        /\ RLeq(Zero, hp.reversion_threshold)
        /\ RLeq(Mean(batch.rewards), best_mean_reward))
       => /\ RLeq(FractionalDrop(best_mean_reward, Mean(batch.rewards)), Zero)
          /\ LivePolicyKept
          /\ SnapshotKept
    ]_vars

\* best is -8, the mean fell to -10, and the live policy is still its own object
C10_Witness ==
    /\ pc = "update"
    /\ mean_rewards = << <<-8, 1>>, <<-10, 1>> >>
    /\ best_mean_reward = <<-8, 1>>
    /\ policy # best_policy

====
